---- MODULE Spec2Model ----
(***************************************************************************)
(* Client-side authenticated request layer of ladespensa-frontend          *)
(* (src/lib/auth-client.js): the window.__despensa singleton, forceLogout, *)
(* doRefresh, getToken and apiFetch, run on the browser's event loop.      *)
(*                                                                         *)
(* Scheduling.  JavaScript is single threaded.  A handler runs from one    *)
(* suspension point (await) to the next without interruption, so every     *)
(* action below is one such run.  Network completions are tasks; the       *)
(* continuation of an await whose promise has already settled is a         *)
(* microtask, and the microtask queue is drained before the next task.     *)
(* A caller whose awaited promise has settled is "ready"; network tasks    *)
(* fire only when no caller is ready.  Page code may call apiFetch or      *)
(* getToken from any task or microtask.                                    *)
(***************************************************************************)
EXTENDS Integers, Sequences, FiniteSets, TLC

\* number of apiFetch/getToken calls the page issues in one page lifetime
NumCallers == 3

Callers == 1..NumCallers

\* JavaScript null / an absent storage entry
Null == 0

\* the refresh credential left in localStorage by the interactive login
InitRT == 1

\* the credentials the renewal endpoint issues for the n-th renewal call:
\* every answer carries a new access token and a rotated refresh token
NewAccessToken(n) == n
NewRefreshToken(n) == InitRT + n

\* window.location.pathname, as a sequence of character chunks
LoginPath == <<"/", "login">>
Pathnames == {<<"/", "stock">>, <<"/", "login">>, <<"/", "login", "x">>}

VARIABLES
  state,         \* window.__despensa: [accessToken, refreshPromise]
  localStorage,  \* [refreshToken, user]
  cookie,        \* value of the refreshToken cookie, Null when expired
  pathname,      \* window.location.pathname of the page
  nav,           \* number of window.location.replace('/login') calls so far
  logouts,       \* number of forceLogout() runs so far
  ops,           \* the promises created by doRefresh, in creation order
  callers,       \* the apiFetch/getToken invocations
  apiAccessToken, \* _accessToken, the module variable of api.js
  gate           \* the last request the server-side gate answered, and its answer

vars == <<state, localStorage, cookie, pathname, nav, logouts, ops, callers,
          apiAccessToken, gate>>

\* String.prototype.startsWith
startsWith(s, p) == Len(s) >= Len(p) /\ SubSeq(s, 1, Len(p)) = p

(***************************************************************************)
(* The browser-global state the functions of the module read and write,    *)
(* bundled so that a function is an operator from world to world.          *)
(***************************************************************************)
World ==
  [state |-> state, localStorage |-> localStorage, cookie |-> cookie,
   pathname |-> pathname, nav |-> nav, logouts |-> logouts, ops |-> ops]

Commit(x) ==
  /\ state' = x.state
  /\ localStorage' = x.localStorage
  /\ cookie' = x.cookie
  /\ pathname' = x.pathname
  /\ nav' = x.nav
  /\ logouts' = x.logouts
  /\ ops' = x.ops

\* persistRefreshCookie(token)
persistRefreshCookie(x, token) == [x EXCEPT !.cookie = token]

\* a logout that redirects wherever the page is
ShouldRedirectAlways(x) == TRUE

\* the guard of the redirect in forceLogout
ShouldRedirect(x) == ~ startsWith(x.pathname, LoginPath)

\* forceLogout()
forceLogout(x) ==
  [x EXCEPT !.state = [accessToken |-> Null, refreshPromise |-> Null],
            !.localStorage = [refreshToken |-> Null, user |-> Null],
            !.cookie = Null,
            !.nav = IF ShouldRedirect(x) THEN @ + 1 ELSE @,
            !.logouts = @ + 1]

\* the finally block of the renewal body
finallyRelease(x) == [x EXCEPT !.state.refreshPromise = Null]

\* a promise created by doRefresh
\*   st: "fetching" (awaiting fetch), "parsing" (awaiting res.json()), "settled"
\*   rt: the refresh token read from storage and sent, Null when none was sent
\*   n: the ordinal of its call to /auth/refresh, 0 when it made none
\*   ok: the endpoint answered with a success status
\*   result: the value the promise resolved with
NewOp(st, rt, n) == [st |-> st, rt |-> rt, n |-> n, ok |-> FALSE, result |-> Null]

InFlight(o) == o.st \in {"fetching", "parsing"}

\* number of calls to /auth/refresh made so far
RefreshCalls(x) == Cardinality({i \in 1..Len(x.ops) : x.ops[i].n # 0})

\* a doRefresh that never finds a recorded operation
HasRecordedNever(x) == FALSE

\* doRefresh: the test for a recorded operation
HasRecorded(x) == x.state.refreshPromise # Null

\* a renewal body whose promise is not recorded in state.refreshPromise
StartRenewalUnrecorded(x) ==
  LET rt == x.localStorage.refreshToken
  IN IF rt = Null
       THEN LET y == finallyRelease(forceLogout(x))
            IN [y EXCEPT !.ops = Append(@, NewOp("settled", Null, 0))]
       ELSE [x EXCEPT !.ops = Append(@, NewOp("fetching", rt, RefreshCalls(x) + 1))]

\* a renewal body that does not log out when there is no refresh token
StartRenewalNoLogout(x) ==
  LET id == Len(x.ops) + 1
      rt == x.localStorage.refreshToken
  IN IF rt = Null
       THEN [x EXCEPT !.ops = Append(@, NewOp("settled", Null, 0)),
                      !.state.refreshPromise = id]
       ELSE [x EXCEPT !.ops = Append(@, NewOp("fetching", rt, RefreshCalls(x) + 1)),
                      !.state.refreshPromise = id]

\* doRefresh: the synchronous part of the renewal body, up to its first await
\* or its return, followed by the assignment of the promise it returned
StartRenewal(x) ==
  LET id == Len(x.ops) + 1
      rt == x.localStorage.refreshToken
  IN IF rt = Null
       THEN LET y == finallyRelease(forceLogout(x))
            IN [y EXCEPT !.ops = Append(@, NewOp("settled", Null, 0)),
                         !.state.refreshPromise = id]
       ELSE [x EXCEPT !.ops = Append(@, NewOp("fetching", rt, RefreshCalls(x) + 1)),
                      !.state.refreshPromise = id]

\* doRefresh(): the world after the call and the promise it returns
doRefresh(x) ==
  IF HasRecorded(x)
    THEN [x |-> x, p |-> x.state.refreshPromise]
    ELSE LET y == StartRenewal(x) IN [x |-> y, p |-> Len(y.ops)]

\* getToken(): the cached token (p = Null) or the promise of doRefresh
getToken(x) ==
  IF x.state.accessToken # Null
    THEN [x |-> x, p |-> Null, token |-> x.state.accessToken]
    ELSE LET r == doRefresh(x) IN [x |-> r.x, p |-> r.p, token |-> Null]

(***************************************************************************)
(* One invocation of apiFetch (or of getToken alone) by page code.         *)
(*   pc        where the invocation stands                                 *)
(*   awaiting  the doRefresh promise it awaits, Null for a cached token    *)
(*   token     the local variable token                                    *)
(*   nreq, tok1, tok2, st1, st2                                            *)
(*             doRequest calls made, the bearer tokens they carried and    *)
(*             the statuses they were answered with                        *)
(*   w1, w2    the promise awaited at line 90 and at line 98               *)
(*   ret, retTok, retFrom                                                  *)
(*             how the invocation ended, the token getToken resolved with, *)
(*             the request whose parsed body apiFetch returned             *)
(*   parsed    the body of the last response received parses as JSON       *)
(*   atCall, atReq1, atRet                                                 *)
(*             what the invocation saw when it was called, when it sent    *)
(*             its first request and when it returned                      *)
(***************************************************************************)
NoSnapshot == [accessToken |-> Null, refreshToken |-> Null, pending |-> "none",
               flying |-> {}, settled |-> FALSE, nav |-> 0, logouts |-> 0, calls |-> 0]

Pending(x) ==
  IF x.state.refreshPromise = Null THEN "none"
  ELSE IF InFlight(x.ops[x.state.refreshPromise]) THEN "inflight" ELSE "settled"

Snapshot(x) ==
  [accessToken |-> x.state.accessToken,
   refreshToken |-> x.localStorage.refreshToken,
   pending |-> Pending(x),
   flying |-> {i \in 1..Len(x.ops) : InFlight(x.ops[i])},
   settled |-> \E i \in 1..Len(x.ops) : x.ops[i].st = "settled",
   nav |-> x.nav, logouts |-> x.logouts, calls |-> RefreshCalls(x)]

IdleCaller ==
  [pc |-> "idle", kind |-> "apiFetch", awaiting |-> Null, token |-> Null,
   nreq |-> 0, tok1 |-> Null, tok2 |-> Null, st1 |-> 0, st2 |-> 0,
   w1 |-> Null, w2 |-> Null, ret |-> "none", retTok |-> Null, retFrom |-> 0,
   parsed |-> FALSE,
   atCall |-> NoSnapshot, atReq1 |-> NoSnapshot, atRet |-> NoSnapshot]

Kinds == {"apiFetch", "getToken"}

\* no request has reached the server-side gate yet
NoRequest == [pathname |-> <<>>, cookie |-> Null, result |-> "none",
              locals |-> Null, location |-> <<>>]

\* what the protected endpoint can answer: a status and whether the body parses
Responses == {[status |-> 200, json |-> TRUE], [status |-> 200, json |-> FALSE],
              [status |-> 401, json |-> TRUE]}

\* a page that has just loaded, with or without a stored session
InitPage ==
  /\ state = [accessToken |-> Null, refreshPromise |-> Null]
  /\ localStorage \in {[refreshToken |-> InitRT, user |-> 1],
                       [refreshToken |-> Null, user |-> Null]}
  /\ cookie = localStorage.refreshToken
  /\ pathname \in Pathnames
  /\ nav = 0
  /\ logouts = 0
  /\ ops = <<>>
  /\ callers = [c \in Callers |-> IdleCaller]
  /\ apiAccessToken = Null

Init == InitPage /\ gate = NoRequest

\* the value an await of the caller's promise yields
Awaited(cl, x) == IF cl.awaiting = Null THEN cl.token ELSE x.ops[cl.awaiting].result

\* the promise the caller awaits has settled: its continuation is a microtask
Ready(c) ==
  /\ callers[c].pc \in {"awaitTok1", "awaitTok2"}
  /\ callers[c].awaiting # Null => ops[callers[c].awaiting].st = "settled"

\* the microtask queue is empty: the event loop takes the next task
Idle == \A c \in Callers : ~ Ready(c)

\* return of the invocation
Return(cl, x, how) == [cl EXCEPT !.pc = "done", !.ret = how, !.atRet = Snapshot(x)]

\* a request that carries the token the invocation held before the await
doRequestStale(cl, x, tk) ==
  IF cl.pc = "awaitTok1"
    THEN [cl EXCEPT !.pc = "req1", !.nreq = @ + 1, !.tok1 = cl.token,
                    !.awaiting = Null, !.atReq1 = Snapshot(x)]
    ELSE [cl EXCEPT !.pc = "req2", !.nreq = @ + 1, !.tok2 = cl.token,
                    !.awaiting = Null]

\* doRequest(token): the request is sent with Authorization: Bearer token
doRequest(cl, x, tk) ==
  IF cl.pc = "awaitTok1"
    THEN [cl EXCEPT !.pc = "req1", !.token = tk, !.nreq = @ + 1, !.tok1 = tk,
                    !.awaiting = Null, !.atReq1 = Snapshot(x)]
    ELSE [cl EXCEPT !.pc = "req2", !.token = tk, !.nreq = @ + 1, !.tok2 = tk,
                    !.awaiting = Null]

\* a continuation that never leaves the await when the renewal resolved with null
AfterTokenStuck(cl, x, tk) ==
  IF tk = Null THEN cl ELSE doRequest(cl, x, tk)

\* apiFetch lines 90-93 and 98-100: the continuation of `token = await ...`
AfterToken(cl, x, tk) ==
  IF tk = Null THEN Return([cl EXCEPT !.token = tk, !.awaiting = Null], x, "null")
  ELSE doRequest(cl, x, tk)

\* apiFetch line 105: try { return await res.json() } catch { return null }
ParseBody(cl, x, res, k) ==
  IF res.json THEN Return([cl EXCEPT !.retFrom = k], x, "body") ELSE Return(cl, x, "null")

\* a first response that is found unauthorized whatever its status
UnauthorizedAlways(res) == TRUE

\* apiFetch line 96: the test of the first response's status
Unauthorized(res) == res.status = 401

\* a retry that is never found unauthorized
StillUnauthorizedNever(res) == FALSE

\* a retry that is found unauthorized whatever its status
StillUnauthorizedAlways(res) == TRUE

\* apiFetch line 103: the test of the status after the retry
StillUnauthorized(res) == res.status = 401

\* apiFetch lines 96-98: after a 401 on the first request, drop the cached
\* token and ask for a renewal
OnFirst401(x) == doRefresh([x EXCEPT !.state.accessToken = Null])

(***************************************************************************)
(* Actions                                                                 *)
(***************************************************************************)

\* page code calls apiFetch(path) or getToken(); callers are numbered in call order
Call(c, k) ==
  /\ callers[c].pc = "idle"
  /\ c > 1 => callers[c - 1].pc # "idle"
  /\ LET r == getToken(World)
     IN /\ Commit(r.x)
        /\ callers' = [callers EXCEPT ![c] =
                         [@ EXCEPT !.pc = "awaitTok1", !.kind = k, !.awaiting = r.p,
                                   !.token = r.token, !.w1 = r.p,
                                   !.atCall = Snapshot(World)]]
  /\ UNCHANGED <<apiAccessToken, gate>>

\* `await getToken()` or `await doRefresh()` resumes
Resume(c) ==
  /\ Ready(c)
  /\ LET cl == callers[c]
         tk == Awaited(cl, World)
     IN callers' = [callers EXCEPT ![c] =
                      IF cl.kind = "getToken"
                        THEN Return([cl EXCEPT !.retTok = tk, !.awaiting = Null],
                                    World, "token")
                        ELSE AfterToken(cl, World, tk)]
  /\ UNCHANGED <<state, localStorage, cookie, pathname, nav, logouts, ops>>
  /\ UNCHANGED <<apiAccessToken, gate>>

\* the protected endpoint answers the first request
FirstResponse(c, res) ==
  /\ Idle
  /\ callers[c].pc = "req1"
  /\ IF Unauthorized(res)
       THEN LET r == OnFirst401(World)
            IN /\ Commit(r.x)
               /\ callers' = [callers EXCEPT ![c] =
                                [@ EXCEPT !.pc = "awaitTok2", !.st1 = res.status,
                                          !.parsed = res.json,
                                          !.awaiting = r.p, !.w2 = r.p]]
       ELSE /\ callers' = [callers EXCEPT ![c] =
                             ParseBody([@ EXCEPT !.st1 = res.status, !.parsed = res.json],
                                       World, res, 1)]
            /\ UNCHANGED <<state, localStorage, cookie, pathname, nav, logouts, ops>>
  /\ UNCHANGED <<apiAccessToken, gate>>

\* the protected endpoint answers the retried request
SecondResponse(c, res) ==
  /\ Idle
  /\ callers[c].pc = "req2"
  /\ IF StillUnauthorized(res)
       THEN LET y == forceLogout(World)
            IN /\ Commit(y)
               /\ callers' = [callers EXCEPT ![c] =
                                Return([@ EXCEPT !.st2 = res.status, !.parsed = res.json],
                                       y, "null")]
       ELSE /\ callers' = [callers EXCEPT ![c] =
                             ParseBody([@ EXCEPT !.st2 = res.status, !.parsed = res.json],
                                       World, res, 2)]
            /\ UNCHANGED <<state, localStorage, cookie, pathname, nav, logouts, ops>>
  /\ UNCHANGED <<apiAccessToken, gate>>

\* fetch of the protected endpoint rejects: apiFetch has no handler, it rejects too
RequestFails(c) ==
  /\ Idle
  /\ callers[c].pc \in {"req1", "req2"}
  /\ callers' = [callers EXCEPT ![c] = Return(@, World, "threw")]
  /\ UNCHANGED <<state, localStorage, cookie, pathname, nav, logouts, ops>>
  /\ UNCHANGED <<apiAccessToken, gate>>

\* a failed renewal that settles with null without logging out
RenewalFailedNoLogout(x, i) ==
  LET y == finallyRelease(x)
  IN [y EXCEPT !.ops[i].st = "settled", !.ops[i].result = Null]

\* renewal body, lines 57, 65-71: a failed renewal logs out and settles with null
RenewalFailed(x, i) ==
  LET y == finallyRelease(forceLogout(x))
  IN [y EXCEPT !.ops[i].st = "settled", !.ops[i].result = Null]

\* a successful renewal that keeps the old refresh token in storage
RenewalSucceededNoRotation(x, i) ==
  LET a == NewAccessToken(x.ops[i].n)
      z == finallyRelease([x EXCEPT !.state.accessToken = a])
  IN [z EXCEPT !.ops[i].st = "settled", !.ops[i].result = a]

\* a renewal that stores the access token but resolves before it is assigned
RenewalSucceededLateStore(x, i) ==
  LET a == NewAccessToken(x.ops[i].n)
      r == NewRefreshToken(x.ops[i].n)
      y == persistRefreshCookie([x EXCEPT !.localStorage.refreshToken = r], r)
      z == finallyRelease(y)
  IN [z EXCEPT !.ops[i].st = "settled", !.ops[i].result = a]

\* renewal body, lines 59-63 and 70: store both credentials, settle with the token
RenewalSucceeded(x, i) ==
  LET a == NewAccessToken(x.ops[i].n)
      r == NewRefreshToken(x.ops[i].n)
      y == persistRefreshCookie(
             [x EXCEPT !.state.accessToken = a, !.localStorage.refreshToken = r], r)
      z == finallyRelease(y)
  IN [z EXCEPT !.ops[i].st = "settled", !.ops[i].result = a]

\* /auth/refresh answers: res.ok or not
RefreshResponse(i, ok) ==
  /\ Idle
  /\ i \in 1..Len(ops)
  /\ ops[i].st = "fetching"
  /\ IF ok
       THEN Commit([World EXCEPT !.ops[i].st = "parsing", !.ops[i].ok = TRUE])
       ELSE Commit(RenewalFailed(World, i))
  /\ UNCHANGED callers
  /\ UNCHANGED <<apiAccessToken, gate>>

\* fetch of /auth/refresh rejects (transport failure)
RefreshThrows(i) ==
  /\ Idle
  /\ i \in 1..Len(ops)
  /\ ops[i].st = "fetching"
  /\ Commit(RenewalFailed(World, i))
  /\ UNCHANGED callers
  /\ UNCHANGED <<apiAccessToken, gate>>

\* res.json() of the renewal answer resolves, or rejects on a malformed body
RefreshJson(i, good) ==
  /\ Idle
  /\ i \in 1..Len(ops)
  /\ ops[i].st = "parsing"
  /\ IF good THEN Commit(RenewalSucceeded(World, i)) ELSE Commit(RenewalFailed(World, i))
  /\ UNCHANGED callers
  /\ UNCHANGED <<apiAccessToken, gate>>

MaxOps == 2 * NumCallers

Next ==
  \/ \E c \in Callers, k \in Kinds : Call(c, k)
  \/ \E c \in Callers : Resume(c)
  \/ \E c \in Callers, res \in Responses : FirstResponse(c, res)
  \/ \E c \in Callers, res \in Responses : SecondResponse(c, res)
  \/ \E c \in Callers : RequestFails(c)
  \/ \E i \in 1..MaxOps, ok \in BOOLEAN : RefreshResponse(i, ok)
  \/ \E i \in 1..MaxOps : RefreshThrows(i)
  \/ \E i \in 1..MaxOps, good \in BOOLEAN : RefreshJson(i, good)

Spec == Init /\ [][Next]_vars

\* the steps the page does not choose: continuations of settled promises and
\* completions (answers or failures) of the network calls already issued
Progress ==
  \/ \E c \in Callers : Resume(c)
  \/ \E c \in Callers, res \in Responses : FirstResponse(c, res)
  \/ \E c \in Callers, res \in Responses : SecondResponse(c, res)
  \/ \E c \in Callers : RequestFails(c)
  \/ \E i \in 1..MaxOps, ok \in BOOLEAN : RefreshResponse(i, ok)
  \/ \E i \in 1..MaxOps : RefreshThrows(i)
  \/ \E i \in 1..MaxOps, good \in BOOLEAN : RefreshJson(i, good)

\* the callers of the specifications other than Spec
FewCallers == 2

NextLive ==
  \/ \E c \in 1..FewCallers, k \in Kinds : Call(c, k)
  \/ Progress

\* every issued network call eventually completes or fails, and the microtask
\* queue is drained
SpecLive == Init /\ [][NextLive]_vars /\ WF_vars(Progress)

(***************************************************************************)
(* api.js: the older client of the same pages, which shares the            *)
(* 'refreshToken' and 'user' entries of localStorage with auth-client.js.  *)
(***************************************************************************)

\* what /auth/login answers: tokens and a user that no renewal has issued
LoginAccessToken == NewAccessToken(MaxOps + 1)
LoginRefreshToken == NewRefreshToken(MaxOps + 1)
LoginUser == LoginRefreshToken

\* setRefreshToken(token)
setRefreshToken(ls, token) == [ls EXCEPT !.refreshToken = token]

\* setUser(user)
setUser(ls, user) == [ls EXCEPT !.user = user]

\* clearTokens(): the two removeItem calls
clearTokens(ls) == [ls EXCEPT !.refreshToken = Null, !.user = Null]

\* auth.login: /auth/login answered with an accessToken
login ==
  /\ Idle
  /\ apiAccessToken' = LoginAccessToken
  /\ localStorage' = setUser(setRefreshToken(localStorage, LoginRefreshToken), LoginUser)
  /\ UNCHANGED <<state, cookie, pathname, nav, logouts, ops, callers, gate>>

\* auth.logout: /auth/logout answered, then clearTokens()
logout ==
  /\ Idle
  /\ apiAccessToken' = Null
  /\ localStorage' = clearTokens(localStorage)
  /\ UNCHANGED <<state, cookie, pathname, nav, logouts, ops, callers, gate>>

NextApi ==
  \/ NextLive
  \/ login
  \/ logout

\* a page that uses both clients
SpecApi == Init /\ [][NextApi]_vars

(***************************************************************************)
(* middleware.js: the server-side gate. A path is the sequence of the      *)
(* pieces of the string, so that startsWith and includes are those of the  *)
(* string; "x" stands for any text without '/', '.', '_' or '?'.           *)
(***************************************************************************)

PUBLIC_ROUTES == {<<"/", "login">>, <<"/", "register">>, <<"/", "join">>}

\* pathname.includes('.')
includes(s, ch) == \E i \in 1..Len(s) : s[i] = ch

\* isPublic
isPublic(p) ==
  \/ \E r \in PUBLIC_ROUTES : p = r \/ startsWith(p, r \o <<"?">>)
  \/ startsWith(p, <<"/", "_">>)
  \/ startsWith(p, <<"/", "base", ".", "css">>)
  \/ includes(p, ".")

\* onRequest(context, next) for a request of path p that carries cookie value ck
onRequest(p, ck) ==
  IF isPublic(p)
    THEN [pathname |-> p, cookie |-> ck, result |-> "next",
          locals |-> Null, location |-> <<>>]
  ELSE IF ck = Null
    THEN [pathname |-> p, cookie |-> ck, result |-> "redirect",
          locals |-> Null, location |-> LoginPath]
  ELSE [pathname |-> p, cookie |-> ck, result |-> "next",
        locals |-> ck, location |-> <<>>]

\* the pieces of the paths requested; context.url.pathname never holds a '?'
PathPieces == {"/", "login", "register", "join", "stock", "_", "base", ".", "css", "x"}
MaxPathLen == 4
RequestPaths ==
  {p \in UNION {[1..n -> PathPieces] : n \in 1..MaxPathLen} : p[1] = "/"}

\* a request of any of the paths arrives with the cookie the browser holds
InitGate ==
  /\ InitPage
  /\ gate \in {[NoRequest EXCEPT !.pathname = p, !.cookie = cookie] : p \in RequestPaths}

\* the gate answers the request
Request ==
  /\ gate.result = "none"
  /\ gate' = onRequest(gate.pathname, gate.cookie)
  /\ UNCHANGED <<state, localStorage, cookie, pathname, nav, logouts, ops, callers,
                 apiAccessToken>>

SpecGate == InitGate /\ [][Request]_vars

(***************************************************************************)
(* Properties                                                              *)
(***************************************************************************)
OpIds == 1..Len(ops)
Flying == {i \in OpIds : InFlight(ops[i])}
Started(c) == callers[c].pc # "idle"
Fetches(c) == Started(c) /\ callers[c].kind = "apiFetch"
Finished(c) == callers[c].pc = "done"
Waiters(i) == {c \in Callers : callers[c].pc \in {"awaitTok1", "awaitTok2"}
                                /\ callers[c].awaiting = i}

\* C1: at most one renewal operation (a promise created by doRefresh that has
\* not settled) is in flight, whatever callers and forceLogout runs interleave.
C1_SingleFlight == Cardinality(Flying) <= 1

\* a forceLogout has dropped the reference to a renewal in flight that callers
\* await, and doRefresh has been called again since
C1_Witness ==
  \E i \in Flying : /\ Waiters(i) # {}
                     /\ state.refreshPromise # i
                     /\ \E j \in OpIds : j > i

\* the apiFetch calls issued while no access token is cached and before any
\* renewal has settled
Early == {c \in Callers : Fetches(c) /\ callers[c].atCall.accessToken = Null
                                     /\ ~ callers[c].atCall.settled}

\* C2: when two or more apiFetch calls are issued while no access credential
\* is cached and before any renewal has settled, /auth/refresh is invoked
\* exactly once for them and each of their requests carries the access token
\* that one renewal returned.
C2_Dedup ==
  Cardinality(Early) >= 2 =>
    \A c \in Early :
      /\ callers[c].w1 # Null
      /\ ops[callers[c].w1].n = 1
      /\ callers[c].pc = "awaitTok1" => RefreshCalls(World) = 1
      /\ callers[c].nreq >= 1 =>
           /\ callers[c].atReq1.calls = 1
           /\ callers[c].tok1 = ops[callers[c].w1].result
           /\ callers[c].tok1 = NewAccessToken(1)

\* three concurrent calls have all sent their request with the renewed token
C2_Witness ==
  /\ Cardinality(Early) >= 3
  /\ \A c \in Early : callers[c].nreq >= 1 /\ callers[c].tok1 = NewAccessToken(1)

\* C3: a refresh token that a successful renewal call has sent is sent by no
\* other renewal call, later or concurrent.
C3_SingleUse ==
  \A i, j \in OpIds :
    (i # j /\ ops[i].n # 0 /\ ops[i].ok /\ ops[j].n # 0) => ops[j].rt # ops[i].rt

\* two renewals have succeeded one after the other, a third is under way
C3_Witness ==
  \E i, j, k \in OpIds :
    /\ i < j /\ j < k
    /\ ops[i].ok /\ ops[i].result # Null
    /\ ops[j].ok /\ ops[j].result # Null
    /\ ops[k].n # 0

\* C4: once a renewal operation has settled, on every exit path,
\* state.refreshPromise is absent: the recorded reference is never a settled
\* operation.
C4_Released ==
  state.refreshPromise # Null => InFlight(ops[state.refreshPromise])

\* C5: a caller that needs renewal while a renewal operation is in flight
\* awaits that operation and starts no new one, and the callers that awaited
\* one operation all receive its result.
C5_JoinsFlight ==
  \A c \in Callers :
    /\ (Started(c) /\ callers[c].atCall.accessToken = Null
                   /\ callers[c].atCall.flying # {})
         => callers[c].w1 \in callers[c].atCall.flying
    /\ (Fetches(c) /\ callers[c].w1 # Null /\ callers[c].nreq >= 1)
         => callers[c].tok1 = ops[callers[c].w1].result
    /\ (Fetches(c) /\ callers[c].w2 # Null /\ callers[c].nreq >= 2)
         => callers[c].tok2 = ops[callers[c].w2].result

\* the renewals an apiFetch call has awaited
Renewals(c) ==
  (IF callers[c].w1 # Null THEN 1 ELSE 0) + (IF callers[c].w2 # Null THEN 1 ELSE 0)

\* an apiFetch call that has returned after two 401 answers
Twice401(c) ==
  Fetches(c) /\ Finished(c) /\ callers[c].st1 = 401 /\ callers[c].st2 = 401

\* C6 as stated: an apiFetch call whose endpoint answers 401 to every request
\* makes exactly two requests and exactly one renewal attempt and returns absent.
C6_OneRenewal ==
  \A c \in Callers :
    Twice401(c) => /\ callers[c].nreq = 2
                   /\ callers[c].ret = "null"
                   /\ Renewals(c) = 1

\* C6 amended: such a call makes exactly two requests, awaits exactly one
\* renewal after the first 401 (and one more before its first request exactly
\* when no access token was cached at the call) and returns absent.
C6_SingleRetry ==
  \A c \in Callers :
    Twice401(c) =>
      /\ callers[c].nreq = 2
      /\ callers[c].ret = "null"
      /\ callers[c].w2 # Null
      /\ ops[callers[c].w2].n # 0
      /\ callers[c].tok2 = ops[callers[c].w2].result
      /\ (callers[c].w1 # Null) = (callers[c].atCall.accessToken = Null)
      /\ Renewals(c) \in {1, 2}

\* one call that started with a cached token and one that started without
\* have both returned after two 401 answers
C6_Witness ==
  \E c, d \in Callers :
    /\ Twice401(c) /\ Renewals(c) = 1
    /\ Twice401(d) /\ Renewals(d) = 2

\* C7: session teardown navigates at most once: a forceLogout that runs while
\* a redirect to /login is pending issues no further navigation.
C7_SingleNavigation == nav <= 1

\* the four pieces of credential state are cleared
TornDown ==
  /\ state.accessToken = Null
  /\ localStorage = [refreshToken |-> Null, user |-> Null]
  /\ cookie = Null

\* a renewal that called /auth/refresh and failed
FailedRenewal(i) == ops[i].st = "settled" /\ ops[i].n # 0 /\ ops[i].result = Null

\* C8: when a renewal fails (non-success answer or transport failure) the
\* session is torn down in the same step, the endpoint is not called again for
\* that operation, and every caller that awaited it receives absent.
C8_FailClosed ==
  /\ [][\A i \in OpIds :
          /\ (InFlight(ops[i]) /\ FailedRenewal(i)')
               => (TornDown' /\ logouts' = logouts + 1 /\ ops'[i].n = ops[i].n)
          /\ ops[i].st = "settled" => ops'[i] = ops[i]]_vars
  /\ [](\A c \in Callers :
          /\ (callers[c].w1 # Null /\ callers[c].pc \notin {"idle", "awaitTok1"}
                /\ FailedRenewal(callers[c].w1))
               => /\ Finished(c) /\ callers[c].nreq = 0
                  /\ callers[c].ret = (IF callers[c].kind = "apiFetch" THEN "null" ELSE "token")
                  /\ callers[c].retTok = Null
          /\ (callers[c].w2 # Null /\ callers[c].pc \notin {"req1", "awaitTok2"}
                /\ FailedRenewal(callers[c].w2))
               => /\ Finished(c) /\ callers[c].nreq = 1 /\ callers[c].ret = "null")

\* a rejected renewal and a renewal whose fetch threw have each handed absent
\* to the callers that awaited them
C8_Witness ==
  \E c, d, e \in Callers :
    /\ c # d /\ callers[c].w1 = callers[d].w1
    /\ Finished(c) /\ Finished(d) /\ callers[c].w1 # Null /\ FailedRenewal(callers[c].w1)
    /\ callers[c].atCall.refreshToken # Null
    /\ Finished(e) /\ callers[e].w2 # Null /\ FailedRenewal(callers[e].w2)
    /\ TornDown

\* an apiFetch call made with neither credential available, that has returned
NoCredentialCall(c) ==
  /\ Fetches(c) /\ Finished(c)
  /\ callers[c].atCall.accessToken = Null
  /\ callers[c].atCall.refreshToken = Null

\* C9: every apiFetch call made with no cached access credential and no stored
\* refresh credential, the first and the later ones alike, returns absent
\* without any network call and issues a redirect to /login unless the page
\* is the login surface.
C9_NoCredential ==
  \A c \in Callers :
    NoCredentialCall(c) =>
      /\ callers[c].ret = "null"
      /\ callers[c].nreq = 0
      /\ callers[c].atRet.calls = callers[c].atCall.calls
      /\ ShouldRedirect(World) => callers[c].atRet.nav > callers[c].atCall.nav

\* C10 as stated: such a call returns absent, attempts no network call and
\* causes no redirect.
C10_NoRedirect ==
  \A c \in Callers :
    NoCredentialCall(c) =>
      /\ callers[c].ret = "null"
      /\ callers[c].nreq = 0
      /\ callers[c].atRet.nav = callers[c].atCall.nav

\* C10 amended: such a call returns absent and attempts no network call, and
\* a redirect to /login has been issued by the time it returns unless the page
\* is the login surface; the call issues it itself when no operation is
\* recorded in state.refreshPromise.
C10_Redirect ==
  \A c \in Callers :
    NoCredentialCall(c) =>
      /\ callers[c].ret = "null"
      /\ callers[c].nreq = 0
      /\ callers[c].atRet.calls = callers[c].atCall.calls
      /\ ShouldRedirect(World) => callers[c].atRet.nav >= 1
      /\ (ShouldRedirect(World) /\ callers[c].atCall.pending = "none")
           => callers[c].atRet.nav > callers[c].atCall.nav
      /\ ~ ShouldRedirect(World) => callers[c].atRet.nav = 0

\* a first call away from the login surface has issued the redirect and a
\* second call has returned absent as well
C10_Witness ==
  \E c, d \in Callers :
    /\ c < d
    /\ NoCredentialCall(c) /\ callers[c].atCall.pending = "none"
    /\ NoCredentialCall(d) /\ callers[d].atCall.pending = "settled"
    /\ ShouldRedirect(World) /\ nav >= 1

\* an apiFetch call that began with a cached token, was answered 401, renewed
\* with success and whose retried request was answered with a parsable body
\* and a status other than 401
Recovered(c) ==
  /\ Fetches(c) /\ Finished(c)
  /\ callers[c].atCall.accessToken # Null
  /\ callers[c].st1 = 401
  /\ callers[c].w2 # Null /\ ops[callers[c].w2].result # Null
  /\ callers[c].st2 \notin {0, 401}
  /\ callers[c].parsed

\* the other invocations so far are getToken() calls only
OnlyFetch(c) == \A d \in Callers \ {c} : ~ Fetches(d)

\* C11: an apiFetch call that starts with a cached but stale credential, gets
\* 401, renews with success and gets a non-401 answer to the retry returns the
\* parsed body of the retried response after one renewal and two requests;
\* when it is the only apiFetch call, that is one /auth/refresh call and no
\* session teardown in total.
C11_Recovers ==
  \A c \in Callers :
    Recovered(c) =>
      /\ callers[c].ret = "body" /\ callers[c].retFrom = 2
      /\ callers[c].nreq = 2
      /\ callers[c].tok1 = callers[c].atCall.accessToken
      /\ callers[c].tok2 = ops[callers[c].w2].result
      /\ Renewals(c) = 1
      /\ OnlyFetch(c) =>
           /\ callers[c].atRet.calls = callers[c].atCall.calls + 1
           /\ callers[c].atRet.logouts = callers[c].atCall.logouts
           /\ callers[c].atRet.nav = callers[c].atCall.nav
           /\ callers[c].atRet.accessToken = callers[c].tok2

\* the only apiFetch call of the page has recovered from a 401
C11_Witness == \E c \in Callers : Recovered(c) /\ OnlyFetch(c)

\* callers whose await of a successful renewal has settled and who have not resumed yet
Resuming == {c \in Callers : /\ Ready(c)
                             /\ callers[c].awaiting # Null
                             /\ ops[callers[c].awaiting].result # Null}

\* C12: a renewal writes both credentials before its operation settles: every caller
\* about to resume from awaiting a successful renewal finds the in-memory access token
\* equal to the value it is handed and the stored refresh token (and its cookie) equal
\* to the value that renewal rotated in
C12_WritesBeforeSettle ==
  \A c \in Resuming :
    LET o == ops[callers[c].awaiting]
    IN /\ state.accessToken = o.result
       /\ o.result = NewAccessToken(o.n)
       /\ localStorage.refreshToken = NewRefreshToken(o.n)
       /\ cookie = NewRefreshToken(o.n)

\* two callers are about to resume from the same successful renewal
C12_Witness ==
  \E c, d \in Resuming : c # d /\ callers[c].awaiting = callers[d].awaiting

\* a renewal that called /auth/refresh and succeeded
SucceededRenewal(i) == ops[i].st = "settled" /\ ops[i].result # Null

\* C13: when a renewal started with stored refresh token r1 is answered with
\* {accessToken: a2, refreshToken: r2}, the step that completes it leaves r2, and
\* no longer r1, in localStorage and in the cookie and a2 in memory; the protected
\* request that follows the renewal (the first request of a call that awaited it at
\* line 90, the retry of a call that awaited it at line 98) carries Bearer a2
C13_Rotation ==
  /\ [][\A i \in OpIds :
          (InFlight(ops[i]) /\ SucceededRenewal(i)')
            => /\ ops'[i].result = NewAccessToken(ops[i].n)
               /\ state'.accessToken = NewAccessToken(ops[i].n)
               /\ localStorage'.refreshToken = NewRefreshToken(ops[i].n)
               /\ localStorage'.refreshToken # ops[i].rt
               /\ cookie' = NewRefreshToken(ops[i].n)
               /\ cookie' # ops[i].rt]_vars
  /\ [](\A c \in Callers :
          /\ (callers[c].w1 # Null /\ callers[c].pc \notin {"idle", "awaitTok1"}
                /\ Fetches(c) /\ SucceededRenewal(callers[c].w1))
               => callers[c].nreq >= 1 /\ callers[c].tok1 = ops[callers[c].w1].result
          /\ (callers[c].w2 # Null /\ callers[c].pc \notin {"req1", "awaitTok2"}
                /\ SucceededRenewal(callers[c].w2))
               => callers[c].nreq = 2 /\ callers[c].tok2 = ops[callers[c].w2].result)

\* Scenario B: a call with no cached token and a stored refresh token awaited one
\* renewal, which rotated the stored value, and then sent its request
C13_Witness ==
  \E c \in Callers :
    /\ Fetches(c) /\ callers[c].atCall.accessToken = Null
    /\ callers[c].w1 # Null /\ SucceededRenewal(callers[c].w1)
    /\ callers[c].pc = "req1" /\ callers[c].tok1 = NewAccessToken(ops[callers[c].w1].n)
    /\ ops[callers[c].w1].rt = callers[c].atCall.refreshToken
    /\ localStorage.refreshToken = NewRefreshToken(ops[callers[c].w1].n)
    /\ RefreshCalls(World) = 1

\* the page is the login surface
OnLogin == startsWith(pathname, LoginPath)

\* C14: a step in which forceLogout runs while the location is the login surface
\* issues no navigation and still leaves the access token, the stored refresh
\* token, the stored user and the cookie cleared
C14_LoginGuard ==
  [][(logouts' > logouts /\ OnLogin) => (nav' = nav /\ nav' = 0 /\ TornDown')]_vars

\* on the login surface forceLogout has run on a session that held credentials, and
\* again after that, without any navigation
C14_Witness ==
  /\ OnLogin /\ logouts >= 2 /\ nav = 0 /\ TornDown
  /\ \E c \in Callers : Started(c) /\ callers[c].atCall.refreshToken # Null

\* the credential state, the renewals and the navigation of the page
Effects == <<state, localStorage, cookie, nav, logouts, ops>>

\* C15: every step of an apiFetch call that held a cached token when it was called
\* and whose first request is not answered 401 leaves the access token, the stored
\* refresh token, the cookie, the pending-operation reference, the renewals and the
\* navigation unchanged; the answer ends the call after that single request, with
\* the parsed body, or with absent (and no exception) when the body does not parse
C15_Frame ==
  [][\A c \in Callers :
       (/\ callers'[c] # callers[c]
        /\ callers'[c].kind = "apiFetch"
        /\ callers'[c].atCall.accessToken # Null
        /\ callers'[c].st1 # 401)
         => /\ Effects' = Effects
            /\ callers'[c].w1 = Null /\ callers'[c].w2 = Null
            /\ (callers[c].pc = "req1" /\ callers'[c].st1 # 0)
                 => /\ callers'[c].pc = "done" /\ callers'[c].nreq = 1
                    /\ callers'[c].ret = (IF callers'[c].parsed THEN "body" ELSE "null")]_vars

\* a call with a cached token got a non-401 answer with a malformed body and
\* returned absent
C15_Witness ==
  \E c \in Callers :
    /\ Fetches(c) /\ Finished(c) /\ callers[c].atCall.accessToken # Null
    /\ callers[c].st1 = 200 /\ ~ callers[c].parsed /\ callers[c].ret = "null"
    /\ callers[c].atCall.refreshToken # Null

\* C19: once forceLogout has run, the in-memory access token, the stored refresh
\* token (with the stored user) and the cookie are absent in every later state: a
\* renewal that was in flight when forceLogout ran writes nothing back
C19_StaysLoggedOut == logouts > 0 => TornDown

\* callers whose first requests carried the same token and were answered 401 have
\* awaited the same call of /auth/refresh
SharedRenewal ==
  \A c, d \in Callers :
    (/\ callers[c].st1 = 401 /\ callers[d].st1 = 401
     /\ callers[c].tok1 = callers[d].tok1
     /\ callers[c].w2 # Null /\ callers[d].w2 # Null
     /\ ops[callers[c].w2].n # 0 /\ ops[callers[d].w2].n # 0)
      => callers[c].w2 = callers[d].w2

\* a 401 for the first request of c arrives while memory holds a newer token
LateUnauthorized(c) ==
  /\ callers[c].pc = "req1" /\ callers'[c].st1 = 401
  /\ state.accessToken \notin {Null, callers[c].tok1}

\* C20: when the first request of a call, sent with token t, is answered 401 while
\* memory holds a newer token installed by another caller's renewal, the step keeps
\* that token and starts no renewal; so callers that sent the same expired token
\* and got 401 cause one call of /auth/refresh
C20_LateUnauthorized ==
  /\ [][\A c \in Callers :
          LateUnauthorized(c) => (state'.accessToken = state.accessToken /\ ops' = ops)]_vars
  /\ []SharedRenewal

\* C18: every apiFetch call that was made eventually ends (returns, or rejects when
\* its request fails), and at every moment it has awaited at most two renewal
\* operations and issued at most two protected requests
C18_Terminates ==
  /\ \A c \in Callers : Fetches(c) ~> Finished(c)
  /\ [](\A c \in Callers : Fetches(c) => Renewals(c) <= 2 /\ callers[c].nreq <= 2)

\* a call has ended after two renewals and two requests while another call was
\* still under way
C18_Witness ==
  \E c, d \in Callers :
    /\ Fetches(c) /\ Finished(c) /\ Renewals(c) = 2 /\ callers[c].nreq = 2
    /\ Fetches(d) /\ ~ Finished(d)

\* C16: the refreshToken cookie that the server-side gate reads is present exactly
\* when the stored refresh token is present, and holds the same value, in every
\* reachable state of a page that uses auth-client.js and api.js
C16_CookieMirrors == cookie = localStorage.refreshToken

\* the path is a public route or lies under one
UnderPublicRoute(p) ==
  \E r \in PUBLIC_ROUTES : p = r \/ startsWith(p, r \o <<"/">>)

\* the path is that of a static asset
StaticAsset(p) == startsWith(p, <<"/", "_">>) \/ includes(p, ".")

\* C17: the gate lets every request under a public prefix (login, registration,
\* join flows such as /join/<code>, static assets) pass without reading the
\* cookie; any other request is redirected to /login when the cookie is absent and
\* otherwise continues with the raw cookie value in the page context
C17_Gate ==
  gate.result # "none" =>
    IF UnderPublicRoute(gate.pathname) \/ StaticAsset(gate.pathname)
      THEN gate.result = "next" /\ gate.locals = Null
    ELSE IF gate.cookie = Null
      THEN gate.result = "redirect" /\ gate.location = LoginPath
    ELSE gate.result = "next" /\ gate.locals = gate.cookie

====
